---- MODULE Spec2Model ----
\* LangDetectSpeech (NVDA add-on): the speech-sequence filter, the language
\* selection of detectLanguage, the settings panel, and the bundled fastText
\* binding's predict. Python strings are sequences of one-character strings.
EXTENDS Integers, Sequences, FiniteSets, TLC

VARIABLES
    synth,          \* speech.synthDriverHandler.getSynth(): [cls, voice]
    synthClass,     \* global synthClass (str of the synth's class, or None)
    synthLangs,     \* global synthLangs: insertion-ordered dict, a sequence of [k, v]
    detector,       \* global detector: 0 is None, else the identity of a LangDetector
    nConstructed,   \* number of LangDetector objects constructed so far
    confWhitelist,  \* config.conf['LangDetectSpeech']['whitelist']
    confFallback,   \* config.conf['LangDetectSpeech']['fallback']
    panel,          \* the LangDetectSpeechSettings instance, if one exists
    last,           \* the speechSequenceFilter call just made: its inputs and its result
    thr,            \* per thread: position inside speechSequenceFilter/detectLanguage
    ft              \* the last _FastText.predict call: its inputs and its result

vars == <<synth, synthClass, synthLangs, detector, nConstructed, confWhitelist,
          confFallback, panel, last, thr, ft>>

\* ---------------------------------------------------------------- bounds

MaxLineLen == 3     \* length of a line given to _FastText.predict
MaxListLen == 2     \* length of a list given to _FastText.predict
MaxSeqLen == 3      \* length of a speech sequence
MaxCands == 2       \* number of candidates detector.detect returns

\* ------------------------------------------------------- program constants

MinTextLen == 3     \* if len(text) < 3
TopK == 5           \* detector.detect(text, k=5)

\* ------------------------------------------------------------ str methods

NL == "\n"
SP == " "

Whitespace == {SP, NL, "\t"}

LowerChar(c) ==
    CASE c = "B" -> "b" [] c = "D" -> "d" [] c = "E" -> "e" [] c = "G" -> "g"
      [] c = "K" -> "k" [] c = "N" -> "n" [] c = "O" -> "o" [] c = "S" -> "s"
      [] c = "U" -> "u" [] OTHER -> c

\* str.lower()
Lower(s) == [i \in 1..Len(s) |-> LowerChar(s[i])]

\* str.find(c) != -1
Contains(s, c) == \E i \in 1..Len(s) : s[i] = c

\* str.find(c), 1-based; 0 when absent
Find(s, c) ==
    IF Contains(s, c) THEN CHOOSE i \in 1..Len(s) : s[i] = c /\ \A j \in 1..(i-1) : s[j] # c
    ELSE 0

RECURSIVE LStrip(_)
LStrip(s) == IF s # <<>> /\ Head(s) \in Whitespace THEN LStrip(Tail(s)) ELSE s

RECURSIVE RStrip(_)
RStrip(s) ==
    IF s # <<>> /\ s[Len(s)] \in Whitespace THEN RStrip(SubSeq(s, 1, Len(s) - 1)) ELSE s

\* str.strip()
Strip(s) == RStrip(LStrip(s))

\* str.split(sep) for a one-character sep: always at least one part
RECURSIVE Split(_, _)
Split(s, sep) ==
    LET i == Find(s, sep)
    IN IF i = 0 THEN <<s>>
       ELSE <<SubSeq(s, 1, i - 1)>> \o Split(SubSeq(s, i + 1, Len(s)), sep)

\* sep.join(parts)
RECURSIVE Join(_, _)
Join(parts, sep) ==
    IF parts = <<>> THEN <<>>
    ELSE IF Len(parts) = 1 THEN parts[1]
    ELSE parts[1] \o sep \o Join(Tail(parts), sep)

\* str.startswith(p)
StartsWith(s, p) == Len(p) <= Len(s) /\ SubSeq(s, 1, Len(p)) = p

\* all strings over the alphabet of length at most n
RECURSIVE StringsUpTo(_, _)
StringsUpTo(alphabet, n) ==
    IF n = 0 THEN {<<>>}
    ELSE LET shorter == StringsUpTo(alphabet, n - 1)
         IN shorter \cup {Append(s, c) : s \in shorter, c \in alphabet}

\* all sequences over the set of length at most n
RECURSIVE SeqsUpTo(_, _)
SeqsUpTo(S, n) ==
    IF n = 0 THEN {<<>>}
    ELSE LET shorter == SeqsUpTo(S, n - 1)
         IN shorter \cup {Append(s, x) : s \in shorter, x \in S}

\* ------------------------------------------------------ _FastText.predict

\* check(entry) without its test for a newline
checkUnvalidated(entry) == [ok |-> TRUE, val |-> Append(entry, NL)]

\* check(entry): a ValueError for an embedded newline, else entry + "\n"
check(entry) ==
    IF Contains(entry, NL) THEN [ok |-> FALSE, val |-> <<>>]
    ELSE [ok |-> TRUE, val |-> Append(entry, NL)]

FtIdle ==
    [op |-> "none", isList |-> FALSE, text |-> <<>>, outcome |-> "none",
     native |-> "none", arg |-> <<>>, labels |-> <<>>, probs |-> <<>>]

\* what the native predict may hand back: (prob, label) pairs
NativePredictions ==
    {<<>>, <<[prob |-> 9, label |-> "en"]>>,
     <<[prob |-> 6, label |-> "en"], [prob |-> 3, label |-> "de"]>>}

\* predict(text): text is a list of entries; a str argument is the one-entry
\* list with isList FALSE. preds is the native call's answer.
predict(text, isList, preds) ==
    LET checked == [i \in 1..Len(text) |-> check(text[i])]
        raised == \E i \in 1..Len(text) : ~checked[i].ok
    IN /\ ft' = IF raised
                THEN [op |-> "predict", isList |-> isList, text |-> text,
                      outcome |-> "ValueError", native |-> "none", arg |-> <<>>,
                      labels |-> <<>>, probs |-> <<>>]
                ELSE [op |-> "predict", isList |-> isList, text |-> text,
                      outcome |-> "returned",
                      native |-> IF isList THEN "multilinePredict" ELSE "predict",
                      arg |-> [i \in 1..Len(text) |-> checked[i].val],
                      labels |-> [i \in 1..Len(preds) |-> preds[i].label],
                      probs |-> [i \in 1..Len(preds) |-> preds[i].prob]]
       /\ UNCHANGED <<synth, synthClass, synthLangs, detector, nConstructed,
                      confWhitelist, confFallback, panel, last, thr>>

Lines == StringsUpTo({"a", NL}, MaxLineLen)

\* predict(text) with a str
PredictStr ==
    /\ ft.op = "none"
    /\ \E s \in Lines, p \in NativePredictions : predict(<<s>>, FALSE, p)

\* predict(text) with a list
PredictList ==
    /\ ft.op = "none"
    /\ \E l \in SeqsUpTo(Lines, MaxListLen), p \in NativePredictions : predict(l, TRUE, p)

\* the caller takes the labels and probabilities, or the ValueError
PredictDone ==
    /\ ft.op # "none"
    /\ ft' = FtIdle
    /\ UNCHANGED <<synth, synthClass, synthLangs, detector, nConstructed, confWhitelist,
                   confFallback, panel, last, thr>>

\* ------------------------------------------------------ language strings

en == <<"e", "n">>
de == <<"d", "e">>
ko == <<"k", "o">>
kok == <<"k", "o", "k">>
EN == <<"E", "N">>
en_US == <<"e", "n", "_", "U", "S">>
en_GB == <<"e", "n", "_", "G", "B">>
de_DE == <<"d", "e", "_", "D", "E">>

\* Python's None where a str is expected
None == <<"<None>">>

\* ------------------------------------------------------------ synthesizers

\* the synthesizer drivers: A and B list their voices, C's availableVoices
\* raises NotImplementedError
SynthIds == {"A", "B", "C"}

HasVoices(cls) == cls # "C"

\* synth.availableVoices: the voices' languages in iteration order
availableVoices(cls) ==
    CASE cls = "A" -> <<en_US, en_GB, de_DE>>
      [] cls = "B" -> <<kok, ko>>
      [] OTHER -> <<>>

\* languageHandler.getLanguage(): NVDA's own language
NvdaLanguage == en_US

\* every (driver, current voice) the user can select
SynthStates ==
    UNION {IF HasVoices(c)
           THEN {[cls |-> c, voice |-> v] : v \in 1..Len(availableVoices(c))}
           ELSE {[cls |-> c, voice |-> 1]} : c \in SynthIds}

\* ------------------------------------------------------------------ dicts

Keys(d) == [i \in 1..Len(d) |-> d[i].k]

KeySet(d) == {d[i].k : i \in 1..Len(d)}

HasKey(d, k) == k \in KeySet(d)

\* d.get(k, default)
Get(d, k, default) ==
    IF HasKey(d, k) THEN d[CHOOSE i \in 1..Len(d) : d[i].k = k].v ELSE default

\* ----------------------------------------------------------- configuration

\* get_whitelist()
get_whitelist(conf) ==
    LET whitelist == Strip(conf)
        parts == Split(whitelist, ",")
    IN IF whitelist # <<>> THEN [i \in 1..Len(parts) |-> Lower(Strip(parts[i]))]
       ELSE <<>>

\* get_fallback()
get_fallback(conf) ==
    LET fallback == Lower(Strip(conf))
    IN IF fallback # <<>> THEN fallback ELSE en

\* voice.language.split('_')[0].lower()
BaseLang(language) == Lower(Split(language, "_")[1])

\* the loop of updateSynthLangs over availableVoices
RECURSIVE BuildLangs(_, _)
BuildLangs(voices, acc) ==
    IF voices = <<>> THEN acc
    ELSE LET lang == BaseLang(Head(voices))
         IN BuildLangs(Tail(voices),
                       IF HasKey(acc, lang) THEN acc
                       ELSE Append(acc, [k |-> lang, v |-> Head(voices)]))

\* whether updateSynthLangs keeps the configured whitelist
WhitelistKept(whitelist, langs) ==
    whitelist # <<>> /\ \A i \in 1..Len(whitelist) : HasKey(langs, whitelist[i])

\* updateSynthLangs(): the new synthClass, synthLangs and configured whitelist
updateSynthLangs(s, cls, langs, wl, fb) ==
    IF s.cls # cls
    THEN LET newLangs == IF HasVoices(s.cls) THEN BuildLangs(availableVoices(s.cls), <<>>)
                         ELSE <<[k |-> get_fallback(fb), v |-> get_fallback(fb)]>>
         IN [synthClass |-> s.cls,
             synthLangs |-> newLangs,
             whitelist |-> IF WhitelistKept(get_whitelist(wl), newLangs) THEN wl
                           ELSE Join(Keys(newLangs), <<",", SP>>)]
    ELSE [synthClass |-> cls, synthLangs |-> langs, whitelist |-> wl]

\* getDefaultLang()
getDefaultLang(s) ==
    IF HasVoices(s.cls) THEN availableVoices(s.cls)[s.voice] ELSE NvdaLanguage

\* ---------------------------------------------------------- detectLanguage

\* init_detector(): LangDetector(cfg) either raises or yields a new object
LangDetectorOutcomes == {"ok", "raise"}

\* init_detector() called whether or not a detector exists
NeedsInitAlways(det) == TRUE

\* if detector is None
NeedsInit(det) == det = 0

\* the codes detector.detect may report
CandCodes == {EN, de, ko, kok}

Distinct(q) == \A i, j \in 1..Len(q) : i # j => q[i] # q[j]

Min(a, b) == IF a < b THEN a ELSE b

\* detector.detect(text, k=5): raises, or the ranked 'lang' fields
DetectOutcomes ==
    {[raises |-> TRUE, results |-> <<>>]} \cup
    {[raises |-> FALSE, results |-> q] :
        q \in {r \in SeqsUpTo(CandCodes, Min(MaxCands, TopK)) : Distinct(r)}}

\* the loop over results without its whitelist test
AcceptsAnySynthLang(lang, whitelist, langs) == HasKey(langs, lang)

\* whether the loop over results takes the candidate
Accepts(lang, whitelist, langs) ==
    /\ whitelist = <<>> \/ \E i \in 1..Len(whitelist) : whitelist[i] = lang
    /\ HasKey(langs, lang)

\* the loop over results: the first accepted candidate, or None
RECURSIVE FirstAccepted(_, _, _)
FirstAccepted(results, whitelist, langs) ==
    IF results = <<>> THEN None
    ELSE IF Accepts(Lower(Head(results)), whitelist, langs) THEN Lower(Head(results))
    ELSE FirstAccepted(Tail(results), whitelist, langs)

\* the fallback taken without the test that the synthesizer has it
FallbackLangUnchecked(fb, langs, defaultLang) == get_fallback(fb)

\* the fallbacks when no candidate was accepted
FallbackLang(fb, langs, defaultLang) ==
    IF HasKey(langs, get_fallback(fb)) THEN get_fallback(fb) ELSE BaseLang(defaultLang)

\* the body of the try block and its except clause: predictedLang
PredictedLang(det, wl, fb, langs, defaultLang) ==
    IF det.raises THEN BaseLang(defaultLang)
    ELSE LET first == FirstAccepted(det.results, get_whitelist(wl), langs)
         IN IF first # None THEN first ELSE FallbackLang(fb, langs, defaultLang)

\* whether the default voice's own language is kept
KeepsDefault(defaultLang, predictedLang) == StartsWith(Lower(defaultLang), predictedLang)

\* the return statement of detectLanguage
ResolveLang(predictedLang, defaultLang, langs) ==
    IF KeepsDefault(defaultLang, predictedLang) THEN defaultLang
    ELSE Get(langs, predictedLang, defaultLang)

\* the length gate on the text as given, not stripped
TooShortUnstripped(text) == Len(text) < MinTextLen

\* if len(text) < 3 after text.strip()
TooShort(text) == Len(Strip(text)) < MinTextLen

\* detectLanguage(text) run to its end: cons and det are what LangDetector(cfg)
\* and detector.detect do if they are called
detectLanguage(text, s, langs, wl, fb, det0, n0, cons, det) ==
    LET defaultLang == getDefaultLang(s)
        quiet == [outcome |-> "returned", ret |-> defaultLang, defaultLang |-> defaultLang,
                  detector |-> det0, nConstructed |-> n0, initCalled |-> FALSE,
                  cons |-> "none", detectCalled |-> FALSE, raises |-> FALSE,
                  results |-> <<>>, predicted |-> None]
    IN IF TooShort(text) THEN quiet
       ELSE IF NeedsInit(det0) /\ cons = "raise"
       THEN [quiet EXCEPT !.outcome = "raised", !.ret = None, !.initCalled = TRUE,
                          !.cons = cons]
       ELSE LET predictedLang == PredictedLang(det, wl, fb, langs, defaultLang)
            IN [outcome |-> "returned",
                ret |-> ResolveLang(predictedLang, defaultLang, langs),
                defaultLang |-> defaultLang,
                detector |-> IF NeedsInit(det0) THEN n0 + 1 ELSE det0,
                nConstructed |-> IF NeedsInit(det0) THEN n0 + 1 ELSE n0,
                initCalled |-> NeedsInit(det0),
                cons |-> IF NeedsInit(det0) THEN cons ELSE "none",
                detectCalled |-> TRUE,
                raises |-> det.raises,
                results |-> det.results,
                predicted |-> predictedLang]

\* ------------------------------------------------------ speechSequenceFilter

StrItem(v) == [type |-> "str", val |-> v]
LangChangeCommand(lang) == [type |-> "lcc", val |-> lang]
OtherCommand == [type |-> "cmd", val |-> <<>>]

\* text += item for every str item
RECURSIVE CollectText(_)
CollectText(seq) ==
    IF seq = <<>> THEN <<>>
    ELSE (IF Head(seq).type = "str" THEN Head(seq).val ELSE <<>>) \o CollectText(Tail(seq))

IsNotLangChange(item) == item.type # "lcc"

\* the items kept in newSequence
KeptItems(seq) == SelectSeq(seq, IsNotLangChange)

\* newSequence
NewSequence(detectedLang, seq) == <<LangChangeCommand(detectedLang)>> \o KeptItems(seq)

LastIdle ==
    [op |-> "none", seq |-> <<>>, text |-> <<>>, outcome |-> "none", out |-> <<>>,
     called |-> FALSE, detBefore |-> 0, nBefore |-> 0, ret |-> None, defaultLang |-> None, initCalled |-> FALSE,
     cons |-> "none", detectCalled |-> FALSE, raises |-> FALSE, results |-> <<>>,
     predicted |-> None]

\* speechSequenceFilter(speechSequence) run to its end
speechSequenceFilter(seq, cons, det) ==
    LET u == updateSynthLangs(synth, synthClass, synthLangs, confWhitelist, confFallback)
        text == CollectText(seq)
        r == detectLanguage(text, synth, u.synthLangs, u.whitelist, confFallback,
                            detector, nConstructed, cons, det)
        seen == [LastIdle EXCEPT !.op = "filter", !.seq = seq, !.text = text,
                                 !.detBefore = detector, !.nBefore = nConstructed]
    IN /\ synthClass' = u.synthClass
       /\ synthLangs' = u.synthLangs
       /\ confWhitelist' = u.whitelist
       /\ IF Strip(text) = <<>>
          THEN /\ last' = [seen EXCEPT !.outcome = "returned", !.out = seq]
               /\ UNCHANGED <<detector, nConstructed>>
          ELSE /\ detector' = r.detector
               /\ nConstructed' = r.nConstructed
               /\ last' = [seen EXCEPT
                             !.called = TRUE,
                             !.outcome = r.outcome,
                             !.out = IF r.outcome = "returned" THEN NewSequence(r.ret, seq)
                                     ELSE <<>>,
                             !.ret = r.ret, !.defaultLang = r.defaultLang,
                             !.initCalled = r.initCalled, !.cons = r.cons,
                             !.detectCalled = r.detectCalled, !.raises = r.raises,
                             !.results = r.results, !.predicted = r.predicted]
       /\ UNCHANGED <<synth, confFallback, panel, thr, ft>>

\* the user selects another synthesizer or another voice
SetSynth ==
    \E s \in SynthStates :
        /\ last.op = "none"
        /\ s # synth
        /\ synth' = s
        /\ UNCHANGED <<last, synthClass, synthLangs, detector, nConstructed,
                       confWhitelist, confFallback, panel, thr, ft>>

\* ---------------------------------------------------------- sets of inputs

\* texts around the length gate: blank, padded, of length 2 and of length 3
SpeechStrings ==
    {<<>>, <<SP, SP>>, <<SP, "a">>, <<"a", "b", SP>>, <<SP, "a", "b", "c">>,
     <<"a", SP, "c">>}

\* an utterance of one string
TextSequences == {<<StrItem(v)>> : v \in SpeechStrings}

SpeechItems ==
    {StrItem(<<SP>>), StrItem(<<"a">>), StrItem(<<"a", "b">>), LangChangeCommand(de),
     OtherCommand}

SpeechSequences == SeqsUpTo(SpeechItems, MaxSeqLen)

\* one utterance of each kind: blank, too short, long enough, with commands
FewSequences ==
    {<<StrItem(<<SP>>)>>, <<StrItem(<<"a">>)>>,
     <<LangChangeCommand(de), StrItem(<<"a", "b", "c">>), OtherCommand>>}

FewDetectOutcomes ==
    {[raises |-> TRUE, results |-> <<>>], [raises |-> FALSE, results |-> <<EN, de>>],
     [raises |-> FALSE, results |-> <<ko, kok>>]}

\* the filter called with an utterance, and with what LangDetector(cfg) and
\* detector.detect do where the call reaches them
Filter(seqs, dets) ==
    \E seq \in seqs :
        \E cons \in IF TooShort(CollectText(seq)) \/ ~NeedsInit(detector) THEN {"ok"}
                    ELSE LangDetectorOutcomes :
            \E det \in IF TooShort(CollectText(seq)) \/ (NeedsInit(detector) /\ cons = "raise")
                       THEN {[raises |-> FALSE, results |-> <<>>]}
                       ELSE dets :
                last.op = "none" /\ speechSequenceFilter(seq, cons, det)

\* the speech pipeline takes what the filter handed back and speaks it
Spoken ==
    /\ last.op # "none"
    /\ last' = LastIdle
    /\ UNCHANGED <<synth, synthClass, synthLangs, detector, nConstructed, confWhitelist,
                   confFallback, panel, thr, ft>>

\* ------------------------------------------------- LangDetectSpeechSettings

\* the characters in code-point order, for sorted()
CodePoints ==
    <<"\t", NL, SP, ",", "B", "D", "E", "G", "K", "N", "O", "S", "U", "_",
      "a", "b", "c", "d", "e", "f", "g", "k", "n", "o", "r", "s", "u">>

Ord(c) == CHOOSE i \in 1..Len(CodePoints) : CodePoints[i] = c

\* a < b for two str
RECURSIVE StrLess(_, _)
StrLess(a, b) ==
    IF b = <<>> THEN FALSE
    ELSE IF a = <<>> THEN TRUE
    ELSE IF Head(a) # Head(b) THEN Ord(Head(a)) < Ord(Head(b))
    ELSE StrLess(Tail(a), Tail(b))

RECURSIVE Insert(_, _)
Insert(x, q) ==
    IF q = <<>> THEN <<x>>
    ELSE IF StrLess(x, Head(q)) THEN <<x>> \o q
    ELSE <<Head(q)>> \o Insert(x, Tail(q))

\* sorted(q)
RECURSIVE Sorted(_)
Sorted(q) == IF q = <<>> THEN <<>> ELSE Insert(Head(q), Sorted(Tail(q)))

\* wx.NOT_FOUND, the selection of a wx.Choice nothing was selected in
NotFound == 0 - 1

NoPanel == [open |-> FALSE, languages |-> <<>>, checked |-> {}, sel |-> NotFound]

\* _loadSettings(): the checkboxes and the selection of the fallback choice
loadSettings(languages, sel, wl, fb) ==
    LET whitelist == get_whitelist(wl)
        fallback == get_fallback(fb)
        found == {i \in 1..Len(languages) : languages[i] = fallback}
    IN [open |-> TRUE,
        languages |-> languages,
        checked |-> {languages[i] : i \in {j \in 1..Len(languages) :
                          \E w \in 1..Len(whitelist) : whitelist[w] = languages[j]}},
        sel |-> IF found # {} THEN (CHOOSE i \in found : \A j \in found : i <= j) - 1
                ELSE IF languages # <<>> THEN 0
                ELSE sel]

\* makeSettings(): the panel is built when its category is first shown
makeSettings ==
    LET u == updateSynthLangs(synth, synthClass, synthLangs, confWhitelist, confFallback)
    IN /\ last.op = "none"
       /\ ~panel.open
       /\ synthClass' = u.synthClass
       /\ synthLangs' = u.synthLangs
       /\ confWhitelist' = u.whitelist
       /\ panel' = loadSettings(Sorted(Keys(u.synthLangs)), NotFound, u.whitelist,
                                confFallback)
       /\ UNCHANGED <<last, synth, detector, nConstructed, confFallback, thr, ft>>

\* onPanelActivated()
onPanelActivated ==
    /\ last.op = "none"
    /\ panel.open
    /\ panel' = loadSettings(panel.languages, panel.sel, confWhitelist, confFallback)
    /\ UNCHANGED <<last, synth, synthClass, synthLangs, detector, nConstructed,
                   confWhitelist, confFallback, thr, ft>>

\* the user checks or unchecks the checkbox of one language
ToggleCheckbox ==
    \E i \in 1..Len(panel.languages) :
        /\ last.op = "none"
        /\ panel.open
        /\ panel' = [panel EXCEPT !.checked =
                        IF panel.languages[i] \in @ THEN @ \ {panel.languages[i]}
                        ELSE @ \cup {panel.languages[i]}]
        /\ UNCHANGED <<last, synth, synthClass, synthLangs, detector, nConstructed,
                       confWhitelist, confFallback, thr, ft>>

\* the user picks an entry of the fallback choice
ChooseFallback ==
    \E i \in 1..Len(panel.languages) :
        /\ last.op = "none"
        /\ panel.open
        /\ panel.sel # i - 1
        /\ panel' = [panel EXCEPT !.sel = i - 1]
        /\ UNCHANGED <<last, synth, synthClass, synthLangs, detector, nConstructed,
                       confWhitelist, confFallback, thr, ft>>

IsChecked(lang) == lang \in panel.checked

\* newWhitelist of onSave
NewWhitelist(p) == SelectSeq(p.languages, IsChecked)

\* onSave()
onSave ==
    /\ last.op = "none"
    /\ panel.open
    /\ confWhitelist' = Join(NewWhitelist(panel), <<",", SP>>)
    /\ confFallback' = IF panel.sel >= 0 /\ panel.sel < Len(panel.languages)
                       THEN panel.languages[panel.sel + 1]
                       ELSE confFallback
    /\ UNCHANGED <<last, synth, synthClass, synthLangs, detector, nConstructed, panel,
                   thr, ft>>

\* the settings dialog is closed and its panels are destroyed
ClosePanel ==
    /\ last.op = "none"
    /\ panel.open
    /\ panel' = NoPanel
    /\ UNCHANGED <<last, synth, synthClass, synthLangs, detector, nConstructed,
                   confWhitelist, confFallback, thr, ft>>

\* ------------------------------------- the filter on more than one thread

Threads == {"t1", "t2"}

ThreadIdle == [pc |-> "idle", seq |-> <<>>, defaultLang |-> None, outcome |-> "none",
               out |-> <<>>]

\* speechSequenceFilter up to the length gate of detectLanguage
ThreadCall(t, seq) ==
    LET u == updateSynthLangs(synth, synthClass, synthLangs, confWhitelist, confFallback)
        text == CollectText(seq)
    IN /\ thr[t].pc = "idle"
       /\ synthClass' = u.synthClass
       /\ synthLangs' = u.synthLangs
       /\ confWhitelist' = u.whitelist
       /\ thr' = [thr EXCEPT ![t] =
                    IF Strip(text) = <<>>
                    THEN [ThreadIdle EXCEPT !.seq = seq, !.outcome = "returned", !.out = seq]
                    ELSE IF TooShort(text)
                    THEN [ThreadIdle EXCEPT !.seq = seq, !.outcome = "returned",
                                            !.defaultLang = getDefaultLang(synth),
                                            !.out = NewSequence(getDefaultLang(synth), seq)]
                    ELSE [ThreadIdle EXCEPT !.pc = "check", !.seq = seq,
                                            !.defaultLang = getDefaultLang(synth)]]
       /\ UNCHANGED <<synth, detector, nConstructed, confFallback, panel, last, ft>>

\* if detector is None
ThreadCheck(t) ==
    /\ thr[t].pc = "check"
    /\ thr' = [thr EXCEPT ![t].pc = IF NeedsInit(detector) THEN "init" ELSE "detect"]
    /\ UNCHANGED <<synth, synthClass, synthLangs, detector, nConstructed, confWhitelist,
                   confFallback, panel, last, ft>>

\* init_detector()
ThreadInit(t, cons) ==
    /\ thr[t].pc = "init"
    /\ IF cons = "raise"
       THEN /\ thr' = [thr EXCEPT ![t].pc = "idle", ![t].outcome = "raised"]
            /\ UNCHANGED <<detector, nConstructed>>
       ELSE /\ nConstructed' = nConstructed + 1
            /\ detector' = nConstructed + 1
            /\ thr' = [thr EXCEPT ![t].pc = "detect"]
    /\ UNCHANGED <<synth, synthClass, synthLangs, confWhitelist, confFallback, panel,
                   last, ft>>

\* the try block, the return of detectLanguage and the rest of the filter
ThreadDetect(t, det) ==
    LET predictedLang == PredictedLang(det, confWhitelist, confFallback, synthLangs,
                                       thr[t].defaultLang)
        ret == ResolveLang(predictedLang, thr[t].defaultLang, synthLangs)
    IN /\ thr[t].pc = "detect"
       /\ thr' = [thr EXCEPT ![t].pc = "idle", ![t].outcome = "returned",
                             ![t].out = NewSequence(ret, thr[t].seq)]
       /\ UNCHANGED <<synth, synthClass, synthLangs, detector, nConstructed,
                      confWhitelist, confFallback, panel, last, ft>>

\* ------------------------------------------------------------------- Init

\* what the configuration file may hold at start: the configspec's defaults,
\* or what an earlier session or an edit of the file left
PersistedWhitelists == {<<>>, <<SP, "K", "O">>}

PersistedFallbacks == {en, <<>>, <<SP, "K", "o", SP>>}

Init ==
    /\ synth \in SynthStates
    /\ synthClass = "None"
    /\ synthLangs = <<>>
    /\ detector = 0
    /\ nConstructed = 0
    /\ confWhitelist \in PersistedWhitelists
    /\ confFallback \in PersistedFallbacks
    /\ panel = NoPanel
    /\ last = LastIdle
    /\ thr = [t \in Threads |-> ThreadIdle]
    /\ ft = FtIdle

\* the add-on on NVDA's main thread: the filter, the synthesizer, the settings
Next ==
    \/ SetSynth
    \/ Filter(FewSequences, FewDetectOutcomes)
    \/ Spoken
    \/ makeSettings
    \/ onPanelActivated
    \/ ToggleCheckbox
    \/ ChooseFallback
    \/ onSave
    \/ ClosePanel

Spec == Init /\ [][Next]_vars

\* the filter over every answer of the detector
NextDetect ==
    \/ SetSynth
    \/ Filter(TextSequences, DetectOutcomes)
    \/ Spoken

SpecDetect == Init /\ [][NextDetect]_vars

\* the filter called from two threads at once
NextThreads ==
    \E t \in Threads :
        \/ \E seq \in FewSequences : ThreadCall(t, seq)
        \/ ThreadCheck(t)
        \/ \E cons \in LangDetectorOutcomes : ThreadInit(t, cons)
        \/ \E det \in FewDetectOutcomes : ThreadDetect(t, det)

SpecThreads == Init /\ [][NextThreads]_vars

\* the filter over every utterance
NextFilter ==
    \/ SetSynth
    \/ Filter(SpeechSequences, FewDetectOutcomes)
    \/ Spoken

SpecFilter == Init /\ [][NextFilter]_vars

\* the fastText binding alone
NextFastText ==
    \/ PredictStr
    \/ PredictList
    \/ PredictDone

\* the binding knows nothing of the add-on's state: the configspec's defaults
InitFastText == Init /\ synth = [cls |-> "A", voice |-> 1] /\ confWhitelist = <<>>
                     /\ confFallback = en

SpecFastText == InitFastText /\ [][NextFastText]_vars

\* ---------------------------------------------------------------- claims

Range(q) == {q[i] : i \in 1..Len(q)}

CountOf(q, x) == Cardinality({i \in 1..Len(q) : q[i] = x})

HasNewline(text) == \E i \in 1..Len(text) : \E j \in 1..Len(text[i]) : text[i][j] = NL

\* C1: a predict call whose text, or any entry of whose list, holds a newline
\* ends in ValueError with no native call made and nothing returned; any other
\* call hands each entry to the native call with exactly one newline, appended
\* at its end.
PredictRejectsNewline ==
    ft.op = "predict" =>
        IF HasNewline(ft.text)
        THEN /\ ft.outcome = "ValueError"
             /\ ft.native = "none"
             /\ ft.arg = <<>> /\ ft.labels = <<>> /\ ft.probs = <<>>
        ELSE /\ ft.outcome = "returned"
             /\ ft.native = IF ft.isList THEN "multilinePredict" ELSE "predict"
             /\ Len(ft.arg) = Len(ft.text)
             /\ \A i \in 1..Len(ft.text) :
                    /\ ft.arg[i] = ft.text[i] \o <<NL>>
                    /\ CountOf(ft.arg[i], NL) = 1

\* C1 witness: a list whose first entry is clean and whose second holds a
\* newline was rejected as a whole.
PredictRejectedSecondEntry ==
    /\ ft.op = "predict" /\ ft.isList /\ Len(ft.text) = 2
    /\ ~Contains(ft.text[1], NL) /\ ft.text[1] # <<>>
    /\ Contains(ft.text[2], NL)
    /\ ft.outcome = "ValueError"

\* C2: whenever LangDetector(cfg) or detector.detect fails inside a filter
\* call, the call still returns a sequence, and the language it injects is the
\* default language.
FailureFallsBackToDefault ==
    (last.op = "filter" /\ (last.cons = "raise" \/ last.raises)) =>
        /\ last.outcome = "returned"
        /\ last.ret = last.defaultLang
        /\ last.out # <<>> /\ last.out[1] = LangChangeCommand(last.defaultLang)

\* C3: once the detector is set it is never replaced or reset and nothing more
\* is constructed; it is set by the first call whose detection goes through,
\* and that is the only construction.
DetectorSetOnce ==
    [][/\ detector # 0 => (detector' = detector /\ nConstructed' = nConstructed)
       /\ (detector = 0 /\ detector' # 0) =>
              (nConstructed' = 1 /\ last'.op = "filter" /\ last'.initCalled)
       /\ (last'.op = "filter" /\ last'.detectCalled) => detector' # 0]_vars

\* C3 witness: a later call reached detection with the detector of an earlier one.
DetectorReused ==
    /\ last.op = "filter" /\ last.detectCalled
    /\ last.detBefore # 0 /\ detector = last.detBefore
    /\ ~last.initCalled

\* C4: however the threads' first calls interleave, at most one LangDetector
\* is ever constructed.
LoadedOnce == nConstructed <= 1

\* the candidates detector.detect reported, lower-cased
Candidates == [i \in 1..Len(last.results) |-> Lower(last.results[i])]

InWhitelist(lang) ==
    get_whitelist(confWhitelist) = <<>> \/ lang \in Range(get_whitelist(confWhitelist))

Eligible(lang) == InWhitelist(lang) /\ lang \in KeySet(synthLangs)

Detected == last.op = "filter" /\ last.detectCalled /\ ~last.raises

\* C5 as stated: when no candidate is both allowed by the whitelist and a key
\* of synthLangs, the language selected is the configured fallback.
NoCandidateSelectsFallback ==
    (Detected /\ \A i \in 1..Len(Candidates) : ~Eligible(Candidates[i])) =>
        last.predicted = get_fallback(confFallback)

\* C5 as amended: when no candidate is both allowed by the whitelist and a key
\* of synthLangs, the language selected is the configured fallback if that is
\* a key of synthLangs, and the default voice's base language otherwise.
NoCandidateSelectsSupportedFallback ==
    (Detected /\ \A i \in 1..Len(Candidates) : ~Eligible(Candidates[i])) =>
        last.predicted = IF get_fallback(confFallback) \in KeySet(synthLangs)
                         THEN get_fallback(confFallback)
                         ELSE BaseLang(getDefaultLang(synth))

\* C5 witness: candidates were reported, none was eligible, and the fallback,
\* which is not the default voice's language, was selected.
FallbackSelected ==
    /\ Detected /\ Candidates # <<>>
    /\ \A i \in 1..Len(Candidates) : ~Eligible(Candidates[i])
    /\ get_fallback(confFallback) \in KeySet(synthLangs)
    /\ get_fallback(confFallback) # BaseLang(getDefaultLang(synth))
    /\ last.predicted = get_fallback(confFallback)

\* the items of a sequence that are no LangChangeCommand, in order
RECURSIVE WithoutLangChange(_)
WithoutLangChange(seq) ==
    IF seq = <<>> THEN <<>>
    ELSE IF Head(seq).type = "lcc" THEN WithoutLangChange(Tail(seq))
    ELSE <<Head(seq)>> \o WithoutLangChange(Tail(seq))

HasText(text) == \E i \in 1..Len(text) : text[i] \notin Whitespace

\* C6: for a sequence with some non-whitespace text the filter returns one
\* LangChangeCommand, at the front, followed by the input's other items in
\* order; a sequence without such text is returned as it is, the detector
\* untouched.
FilterShape ==
    last.op = "filter" =>
        IF HasText(last.text)
        THEN /\ last.outcome = "returned"
             /\ last.out # <<>> /\ last.out[1].type = "lcc"
             /\ Cardinality({i \in 1..Len(last.out) : last.out[i].type = "lcc"}) = 1
             /\ Tail(last.out) = WithoutLangChange(last.seq)
        ELSE /\ last.outcome = "returned"
             /\ last.out = last.seq
             /\ ~last.called /\ ~last.detectCalled
             /\ detector = last.detBefore

\* C7: when some candidate is a key of synthLangs and passes the whitelist, the
\* language selected is the first such candidate in rank order.
FirstEligibleSelected ==
    (Detected /\ \E i \in 1..Len(Candidates) : Eligible(Candidates[i])) =>
        \E i \in 1..Len(Candidates) :
            /\ Eligible(Candidates[i])
            /\ \A j \in 1..(i - 1) : ~Eligible(Candidates[j])
            /\ last.predicted = Candidates[i]
            /\ InWhitelist(last.predicted)

\* C7 witness: the top candidate is a synthesizer language outside the
\* whitelist, and the second candidate was selected.
WhitelistSkippedTopCandidate ==
    /\ Detected /\ Len(Candidates) = 2
    /\ get_whitelist(confWhitelist) # <<>>
    /\ Candidates[1] \in KeySet(synthLangs) /\ ~InWhitelist(Candidates[1])
    /\ last.predicted = Candidates[2]

\* C8: a text shorter than 3 after trimming gets the default voice's language
\* back from detectLanguage, with no detector constructed, no detect call and
\* the detector as it was.
ShortTextSkipsDetector ==
    (last.op = "filter" /\ Len(Strip(last.text)) < 3) =>
        /\ last.outcome = "returned"
        /\ last.called => last.ret = getDefaultLang(synth)
        /\ ~last.initCalled /\ ~last.detectCalled
        /\ detector = last.detBefore /\ nConstructed = last.nBefore

\* C8 witness: a text of 3 characters that trims to 2 was answered while no
\* detector existed.
PaddedShortTextAnswered ==
    /\ last.op = "filter" /\ last.called
    /\ Len(last.text) = 3 /\ Len(Strip(last.text)) = 2
    /\ last.detBefore = 0 /\ detector = 0
    /\ last.ret = getDefaultLang(synth)

\* C9: the default voice's language is returned when the selected code is the
\* default voice's base language; synthLangs[selected] is returned when the
\* selected code differs from it and is a key of synthLangs; and what is
\* returned is always the default voice's language or a value of synthLangs.
DialectRule ==
    (last.op = "filter" /\ last.detectCalled) =>
        /\ last.predicted = BaseLang(last.defaultLang) => last.ret = last.defaultLang
        /\ (last.predicted # BaseLang(last.defaultLang)
                /\ last.predicted \in KeySet(synthLangs)) =>
               last.ret = Get(synthLangs, last.predicted, None)
        /\ \/ last.ret = last.defaultLang
           \/ \E i \in 1..Len(synthLangs) : last.ret = synthLangs[i].v

\* C10: once synthLangs has been filled, every language of the configured
\* whitelist is a key of synthLangs.
WhitelistSupported ==
    synthClass # "None" =>
        \A i \in 1..Len(get_whitelist(confWhitelist)) :
            get_whitelist(confWhitelist)[i] \in KeySet(synthLangs)

====
